---- MODULE Spec2Model ----
(***************************************************************************)
(* GuestProxyAgent: the error facade (proxy_agent/src/common/error.rs) and *)
(* the aggregate status schema                                             *)
(* (proxy_agent_shared/src/proxy_agent_aggregate_status.rs).               *)
(*                                                                         *)
(* Three client scenarios drive the two libraries:                         *)
(*   - SpecError : a caller builds Error values with the facade's          *)
(*     constructors, renders them (to_string) and embeds a rendering in a  *)
(*     SendKeyRequest, as error_formatting_test does;                      *)
(*   - SpecStatus: a producer builds a GuestProxyAgentAggregateStatus, it  *)
(*     is serialized to a document, the document may be edited by a        *)
(*     foreign writer, and a consumer deserializes it;                     *)
(*   - SpecClone : an owner of a ProxyConnectionSummary clones it and      *)
(*     writes to the source and to the copy.                               *)
(* SpecStatusClone runs either of the last two.                            *)
(*                                                                         *)
(* The serialized form is JSON as serde_json writes and reads it, kept as  *)
(* a tree (objects with ordered members, arrays, strings, null, integers   *)
(* as decimal digit strings); a struct is always read from an object.      *)
(***************************************************************************)
EXTENDS Integers, Sequences, FiniteSets, TLC

VARIABLES
    error,      \* the caller's `error` variable: an Error, or NoError
    text,       \* the String returned by the last error.to_string(), or None
    ctor,       \* name of the constructor that returned `error`
    args,       \* the arguments that constructor was given
    inner,      \* the Error whose rendering was embedded in `error`, or NoError
    nest,       \* how many renderings are embedded in `error`
    snapshot,   \* the producer's GuestProxyAgentAggregateStatus, or None
    doc,        \* the document in flight to the consumer, or None
    origin,     \* "serialized": doc is the serializer's output; "foreign": edited
    edit,       \* the edit a foreign writer made to doc, or NoEdit
    parsed,     \* the consumer's deserialization result of doc, or None
    heap,       \* the allocator's buffers: heap[a] is the buffer at address a
    src,        \* the owner's ProxyConnectionSummary, or None
    copy,       \* its clone, or None
    op,         \* the last operation on src or copy
    own,        \* what each summary held when its own holder last wrote it
    muts        \* how many mutations were made

errorVars == <<error, text, ctor, args, inner, nest>>

statusVars == <<snapshot, doc, origin, edit, parsed>>

cloneVars == <<heap, src, copy, op, own, muts>>

vars ==
    <<error, text, ctor, args, inner, nest, snapshot, doc, origin, edit, parsed,
      heap, src, copy, op, own, muts>>

\* Option: None is the empty tuple, Some(x) the one-element tuple
None == <<>>

Some(x) == <<x>>

(***************************************************************************)
(* Bounds                                                                  *)
(***************************************************************************)
\* how many times a rendering may be embedded in a new SendKeyRequest
MaxNest == 1

\* how many times the source and the copy of a summary are mutated
MaxMutations == 2

(***************************************************************************)
(* Foreign failure values and their Display texts (std, hex, hyper, http)  *)
(***************************************************************************)
IoErrors == {"NotFound", "PermissionDenied"}

IoErrorDisplay(e) ==
    CASE e = "NotFound" -> "entity not found"
      [] e = "PermissionDenied" -> "permission denied"

HexErrors == {"OddLength", "InvalidStringLength"}

FromHexErrorDisplay(e) ==
    CASE e = "OddLength" -> "Odd number of digits"
      [] e = "InvalidStringLength" -> "Invalid string length"

HyperErrors == {"Canceled", "IncompleteMessage"}

HyperErrorDisplay(e) ==
    CASE e = "Canceled" -> "operation was canceled"
      [] e = "IncompleteMessage" -> "connection closed before message completed"

InvalidUris == {"Empty", "InvalidUriChar", "InvalidFormat"}

InvalidUriDisplay(e) ==
    CASE e = "Empty" -> "empty string"
      [] e = "InvalidUriChar" -> "invalid uri character"
      [] e = "InvalidFormat" -> "invalid format"

\* StatusCode::from_u16 accepts 100..=999
StatusCodes == {200, 404, 500, 599}

DigitChar(d) ==
    CASE d = 0 -> "0" [] d = 1 -> "1" [] d = 2 -> "2" [] d = 3 -> "3"
      [] d = 4 -> "4" [] d = 5 -> "5" [] d = 6 -> "6" [] d = 7 -> "7"
      [] d = 8 -> "8" [] d = 9 -> "9"

RECURSIVE U16Display(_)
U16Display(n) ==
    IF n < 10 THEN DigitChar(n)
    ELSE U16Display(n \div 10) \o DigitChar(n % 10)

\* StatusCode::canonical_reason
CanonicalReason(code) ==
    CASE code = 200 -> "OK"
      [] code = 404 -> "Not Found"
      [] code = 500 -> "Internal Server Error"
      [] OTHER -> "<unknown status code>"

\* impl Display for StatusCode: "{} {}", code, canonical_reason or a placeholder
StatusCodeDisplay(code) == U16Display(code) \o " " \o CanonicalReason(code)

(***************************************************************************)
(* The inputs the caller passes                                            *)
(***************************************************************************)
Contexts == {"read key file", "Deserialization failed"}

Reasons == {"Invalid response", "operation was canceled"}

Targets == {"testurl.com", "168.63.129.16"}

Urls == {"testurl.com", ""}

KeyActions == {"acquire", "attest"}

HexKeys == {"0a1", "zz"}

WireServerErrorTypes == {"Telemetry", "GoalState", "SharedConfig"}

(***************************************************************************)
(* The sub-kinds' values                                                   *)
(***************************************************************************)
Custom(context, cause) == [kind |-> "Custom", context |-> context, cause |-> cause]

RequestBuilder(reason) == [kind |-> "RequestBuilder", reason |-> reason]

ServerError(target, status) == [kind |-> "ServerError", target |-> target, status |-> status]

Deserialize(reason) == [kind |-> "Deserialize", reason |-> reason]

HyperErrorTypes ==
    {Custom(c, e) : c \in Contexts, e \in HyperErrors}
        \cup {RequestBuilder(r) : r \in Reasons}
        \cup {ServerError(t, s) : t \in Targets, s \in StatusCodes}
        \cup {Deserialize(r) : r \in Reasons}

KeyStatusValidation(detail) == [kind |-> "KeyStatusValidation", detail |-> detail]

SendKeyRequest(action, innerText) ==
    [kind |-> "SendKeyRequest", action |-> action, innerText |-> innerText]

KeyResponse(action, status) == [kind |-> "KeyResponse", action |-> action, status |-> status]

ParseKeyUrl(base, path, cause) ==
    [kind |-> "ParseKeyUrl", base |-> base, path |-> path, cause |-> cause]

KeyErrorTypes ==
    {KeyStatusValidation(r) : r \in Reasons}
        \cup {SendKeyRequest(a, r) : a \in KeyActions, r \in Reasons}
        \cup {KeyResponse(a, s) : a \in KeyActions, s \in StatusCodes}
        \cup {ParseKeyUrl(b, "/secure-channel/key", e) : b \in Urls, e \in InvalidUris}

(***************************************************************************)
(* Error and its constructors                                              *)
(***************************************************************************)
NoError == [boxed |-> [variant |-> "None"]]

NoArgs == [none |-> TRUE]

\* Error::new
new(e) == [boxed |-> e]

io(message, cause) == new([variant |-> "IO", f0 |-> message, f1 |-> cause])

hyper(e) == new([variant |-> "Hyper", f0 |-> e])

MutHexAsIo(message, cause) == new([variant |-> "IO", f0 |-> message, f1 |-> cause])
hex(message, cause) == new([variant |-> "Hex", f0 |-> message, f1 |-> cause])

key(e) == new([variant |-> "Key", f0 |-> e])

MutParseUrlKeepsCause(url, cause) == new([variant |-> "ParseUrl", f0 |-> url, f1 |-> cause])
parse_url(url, cause) == new([variant |-> "ParseUrl", f0 |-> url, f1 |-> InvalidUriDisplay(cause)])

parse_url_message(url, message) == new([variant |-> "ParseUrl", f0 |-> url, f1 |-> message])

wire_server(error_type, message) ==
    new([variant |-> "WireServer", f0 |-> error_type, f1 |-> message])

(***************************************************************************)
(* Rendering: the thiserror templates                                      *)
(***************************************************************************)
HyperErrorTypeDisplay(e) ==
    CASE e.kind = "Custom" -> e.context \o ": " \o HyperErrorDisplay(e.cause)
      [] e.kind = "RequestBuilder" -> "Failed to build request with error: " \o e.reason
      [] e.kind = "ServerError" ->
            "Failed to get response from " \o e.target \o ", status code: "
                \o StatusCodeDisplay(e.status)
      [] e.kind = "Deserialize" -> "Deserialization failed: " \o e.reason

MutWireServerTagName(t) == t
WireServerErrorTypeDisplay(t) ==
    CASE t = "Telemetry" -> "Telemetry call to wire server failed"
      [] t = "GoalState" -> "Goal state call to wire server failed"
      [] t = "SharedConfig" -> "Shared config call to wire server failed"

MutKeySendSwapped(e) ==
    CASE e.kind = "KeyStatusValidation" ->
            "Key status validation failed with the error: " \o e.detail
      [] e.kind = "SendKeyRequest" ->
            "Failed to send " \o e.innerText \o " key with error: " \o e.action
      [] e.kind = "KeyResponse" ->
            "Failed to " \o e.action \o " key with status code: " \o StatusCodeDisplay(e.status)
      [] e.kind = "ParseKeyUrl" ->
            "Failed to join " \o e.base \o " and " \o e.path \o " with error: "
                \o InvalidUriDisplay(e.cause)
KeyErrorTypeDisplay(e) ==
    CASE e.kind = "KeyStatusValidation" ->
            "Key status validation failed with the error: " \o e.detail
      [] e.kind = "SendKeyRequest" ->
            "Failed to send " \o e.action \o " key with error: " \o e.innerText
      [] e.kind = "KeyResponse" ->
            "Failed to " \o e.action \o " key with status code: " \o StatusCodeDisplay(e.status)
      [] e.kind = "ParseKeyUrl" ->
            "Failed to join " \o e.base \o " and " \o e.path \o " with error: "
                \o InvalidUriDisplay(e.cause)

MutKeyNoPrefix(e) ==
    CASE e.variant = "IO" -> "IO error: " \o e.f0 \o ": " \o IoErrorDisplay(e.f1)
      [] e.variant = "Hyper" -> HyperErrorTypeDisplay(e.f0)
      [] e.variant = "Hex" ->
            "Hex encoded key '" \o e.f0 \o "' is invalid: " \o FromHexErrorDisplay(e.f1)
      [] e.variant = "Key" -> KeyErrorTypeDisplay(e.f0)
      [] e.variant = "WireServer" ->
            WireServerErrorTypeDisplay(e.f0) \o " with the error: " \o e.f1
      [] e.variant = "ParseUrl" ->
            "Failed to parse URL " \o e.f0 \o " with error: " \o e.f1
ErrorTypeDisplay(e) ==
    CASE e.variant = "IO" -> "IO error: " \o e.f0 \o ": " \o IoErrorDisplay(e.f1)
      [] e.variant = "Hyper" -> HyperErrorTypeDisplay(e.f0)
      [] e.variant = "Hex" ->
            "Hex encoded key '" \o e.f0 \o "' is invalid: " \o FromHexErrorDisplay(e.f1)
      [] e.variant = "Key" -> "Key error: " \o KeyErrorTypeDisplay(e.f0)
      [] e.variant = "WireServer" ->
            WireServerErrorTypeDisplay(e.f0) \o " with the error: " \o e.f1
      [] e.variant = "ParseUrl" ->
            "Failed to parse URL " \o e.f0 \o " with error: " \o e.f1

\* impl Display for Error: self.0.fmt(f)
ErrorDisplay(e) == ErrorTypeDisplay(e.boxed)

(***************************************************************************)
(* The caller                                                              *)
(***************************************************************************)
NoEdit == [path |-> <<>>, e |-> [op |-> "none"]]

StatusIdle ==
    /\ snapshot = None
    /\ doc = None
    /\ origin = "none"
    /\ edit = NoEdit
    /\ parsed = None

ErrorIdle ==
    /\ error = NoError
    /\ text = None
    /\ ctor = "none"
    /\ args = NoArgs
    /\ inner = NoError
    /\ nest = 0

CloneIdle ==
    /\ heap = <<>>
    /\ src = None
    /\ copy = None
    /\ op = "none"
    /\ own = [src |-> None, copy |-> None]
    /\ muts = 0

InitError == ErrorIdle /\ StatusIdle /\ CloneIdle

\* a freshly returned Error: nothing rendered yet, nothing embedded
Fresh ==
    /\ text' = None
    /\ inner' = NoError
    /\ nest' = 0

CallIo ==
    \E m \in Contexts, c \in IoErrors :
        /\ error' = io(m, c)
        /\ ctor' = "io"
        /\ args' = [message |-> m, cause |-> c]
        /\ Fresh
        /\ UNCHANGED <<statusVars, cloneVars>>

CallHyper ==
    \E h \in HyperErrorTypes :
        /\ error' = hyper(h)
        /\ ctor' = "hyper"
        /\ args' = [error |-> h]
        /\ Fresh
        /\ UNCHANGED <<statusVars, cloneVars>>

CallHex ==
    \E m \in HexKeys, c \in HexErrors :
        /\ error' = hex(m, c)
        /\ ctor' = "hex"
        /\ args' = [message |-> m, cause |-> c]
        /\ Fresh
        /\ UNCHANGED <<statusVars, cloneVars>>

CallKey ==
    \E k \in KeyErrorTypes :
        /\ error' = key(k)
        /\ ctor' = "key"
        /\ args' = [error |-> k]
        /\ Fresh
        /\ UNCHANGED <<statusVars, cloneVars>>

CallParseUrl ==
    \E u \in Urls, c \in InvalidUris :
        /\ error' = parse_url(u, c)
        /\ ctor' = "parse_url"
        /\ args' = [url |-> u, cause |-> c]
        /\ Fresh
        /\ UNCHANGED <<statusVars, cloneVars>>

CallParseUrlMessage ==
    \E u \in Urls, m \in Reasons \cup {InvalidUriDisplay(c) : c \in InvalidUris} :
        /\ error' = parse_url_message(u, m)
        /\ ctor' = "parse_url_message"
        /\ args' = [url |-> u, message |-> m]
        /\ Fresh
        /\ UNCHANGED <<statusVars, cloneVars>>

CallWireServer ==
    \E t \in WireServerErrorTypes, m \in Reasons :
        /\ error' = wire_server(t, m)
        /\ ctor' = "wire_server"
        /\ args' = [error_type |-> t, message |-> m]
        /\ Fresh
        /\ UNCHANGED <<statusVars, cloneVars>>

\* error.to_string()
to_string ==
    /\ error # NoError
    /\ text' = Some(ErrorDisplay(error))
    /\ UNCHANGED <<error, ctor, args, inner, nest>>
    /\ UNCHANGED <<statusVars, cloneVars>>

\* error = Error::key(KeyErrorType::SendKeyRequest(action, error.to_string()))
KeyFromRendered ==
    /\ error # NoError
    /\ nest < MaxNest
    /\ \E a \in KeyActions :
        /\ error' = key(SendKeyRequest(a, ErrorDisplay(error)))
        /\ args' = [error |-> SendKeyRequest(a, ErrorDisplay(error))]
    /\ text' = None
    /\ ctor' = "key"
    /\ inner' = error
    /\ nest' = nest + 1
    /\ UNCHANGED <<statusVars, cloneVars>>

NextError ==
    \/ CallIo
    \/ CallHyper
    \/ CallHex
    \/ CallKey
    \/ CallParseUrl
    \/ CallParseUrlMessage
    \/ CallWireServer
    \/ to_string
    \/ KeyFromRendered

SpecError == InitError /\ [][NextError]_vars

(***************************************************************************)
(* Fixed-width unsigned integers.  u64 and u128 exceed the checker's       *)
(* integers, so a value is kept as 16-bit limbs, least significant first:  *)
(* u16 is one limb, u64 four, u128 eight.                                  *)
(***************************************************************************)
LimbBase == 65536

U16Limbs == 1

U64Limbs == 4

U128Limbs == 8

Limb == 0..(LimbBase - 1)

ZeroLimbs(n) == [i \in 1..n |-> 0]

MaxLimbs(n) == [i \in 1..n |-> LimbBase - 1]

IsZero(limbs) == \A i \in 1..Len(limbs) : limbs[i] = 0

\* long division by ten, from the most significant limb down
RECURSIVE DivStep(_, _, _)
DivStep(limbs, i, rem) ==
    IF i = 0 THEN [q |-> limbs, r |-> rem]
    ELSE LET cur == rem * LimbBase + limbs[i]
         IN  DivStep([limbs EXCEPT ![i] = cur \div 10], i - 1, cur % 10)

DivMod10(limbs) == DivStep(limbs, Len(limbs), 0)

RECURSIVE LimbsToDigits(_)
LimbsToDigits(limbs) ==
    IF IsZero(limbs) THEN <<>>
    ELSE LET dm == DivMod10(limbs)
         IN  Append(LimbsToDigits(dm.q), dm.r)

\* itoa: the decimal digits of an unsigned value, most significant first
UnsignedDigits(limbs) == IF IsZero(limbs) THEN <<0>> ELSE LimbsToDigits(limbs)

\* limbs * 10 + carry within Len(limbs) limbs; the carry out of the top limb
RECURSIVE MulAddStep(_, _, _)
MulAddStep(limbs, i, carry) ==
    IF i > Len(limbs) THEN [limbs |-> limbs, carry |-> carry]
    ELSE LET cur == limbs[i] * 10 + carry
         IN  MulAddStep([limbs EXCEPT ![i] = cur % LimbBase], i + 1, cur \div LimbBase)

\* accumulate decimal digits into n limbs; a carry out of the top is an overflow
RECURSIVE AccumulateDigits(_, _, _)
AccumulateDigits(digits, i, acc) ==
    IF i > Len(digits) THEN [ok |-> TRUE, limbs |-> acc]
    ELSE LET st == MulAddStep(acc, 1, digits[i])
         IN  IF st.carry > 0 THEN [ok |-> FALSE, limbs |-> acc]
             ELSE AccumulateDigits(digits, i + 1, st.limbs)

\* a JSON integer: no empty digit string, no leading zero before another digit
WellFormedDigits(digits) ==
    /\ Len(digits) > 0
    /\ \A i \in 1..Len(digits) : digits[i] \in 0..9
    /\ (Len(digits) > 1 => digits[1] # 0)

\* widen a value to n limbs
Widen(limbs, n) == [i \in 1..n |-> IF i <= Len(limbs) THEN limbs[i] ELSE 0]

\* the low n limbs hold the whole value
FitsIn(limbs, n) == \A i \in 1..Len(limbs) : i > n => limbs[i] = 0

(***************************************************************************)
(* Status values                                                           *)
(***************************************************************************)
ModuleState == {"UNKNOWN", "RUNNING", "STOPPED"}

OverallState == {"SUCCESS", "ERROR", "UNKNOWN"}

\* HashMap<String, String>: a set of key/value pairs with distinct keys
MapKeys == {"keyGuid", "secureChannelState"}

KeyOrders == {<<"keyGuid", "secureChannelState">>, <<"secureChannelState", "keyGuid">>}

ProxyAgentDetailStatus(status, message, states) ==
    [status |-> status, message |-> message, states |-> states]

DetailFields ==
    <<"monitorStatus", "keyLatchStatus", "ebpfProgramStatus", "proxyListenerStatus",
      "telemetryLoggerStatus">>

ProxyConnectionSummary(userName, ip, port, processCmdLine, responseStatus, count, userGroups, processFullPath) ==
    [userName |-> userName, ip |-> ip, port |-> port, processCmdLine |-> processCmdLine,
     responseStatus |-> responseStatus, count |-> count, userGroups |-> userGroups,
     processFullPath |-> processFullPath]

(***************************************************************************)
(* Documents: the structured text a status is serialized to, as a tree     *)
(***************************************************************************)
JStr(s) == [t |-> "str", s |-> s]

JNum(neg, digits) == [t |-> "num", neg |-> neg, digits |-> digits]

JNull == [t |-> "null"]

JArr(items) == [t |-> "arr", items |-> items]

JObj(members) == [t |-> "obj", members |-> members]

Member(k, v) == [k |-> k, v |-> v]

(***************************************************************************)
(* derive(Serialize)                                                       *)
(***************************************************************************)
SerializeString(s) == JStr(s)

\* a unit variant is written as its name
SerializeEnum(e) == JStr(e)

SerializeU16(n) == JNum(FALSE, UnsignedDigits(<<n>>))

SerializeUnsigned(limbs) == JNum(FALSE, UnsignedDigits(limbs))

\* a HashMap is written in its iteration order, which the hasher decides
SerializeMap(map, order) ==
    LET present == SelectSeq(order, LAMBDA k : \E p \in map : p.k = k)
    IN  JObj([i \in 1..Len(present) |->
                Member(present[i], JStr((CHOOSE p \in map : p.k = present[i]).v))])

SerializeVecString(v) == JArr([i \in 1..Len(v) |-> JStr(v[i])])

SerializeOptionString(o) == IF o = None THEN JNull ELSE JStr(o[1])

SerializeOptionVecString(o) == IF o = None THEN JNull ELSE SerializeVecString(o[1])

MutDetailStatesNull(d, order) ==
    JObj(<<Member("status", SerializeEnum(d.status)),
           Member("message", SerializeString(d.message)),
           Member("states", IF d.states = None THEN JNull
                            ELSE SerializeMap(d.states[1], order))>>)
\* skip_serializing_if = "Option::is_none" on states
SerializeDetail(d, order) ==
    JObj(<<Member("status", SerializeEnum(d.status)),
           Member("message", SerializeString(d.message))>>
         \o (IF d.states = None THEN <<>>
             ELSE <<Member("states", SerializeMap(d.states[1], order))>>))

SerializeProxyAgentStatus(s, ord) ==
    JObj(<<Member("version", SerializeString(s.version)),
           Member("status", SerializeEnum(s.status)),
           Member("monitorStatus", SerializeDetail(s.monitorStatus, ord.monitorStatus)),
           Member("keyLatchStatus", SerializeDetail(s.keyLatchStatus, ord.keyLatchStatus)),
           Member("ebpfProgramStatus",
                  SerializeDetail(s.ebpfProgramStatus, ord.ebpfProgramStatus)),
           Member("proxyListenerStatus",
                  SerializeDetail(s.proxyListenerStatus, ord.proxyListenerStatus)),
           Member("telemetryLoggerStatus",
                  SerializeDetail(s.telemetryLoggerStatus, ord.telemetryLoggerStatus)),
           Member("proxyConnectionsCount", SerializeUnsigned(s.proxyConnectionsCount))>>)

SerializeSummary(c) ==
    JObj(<<Member("userName", SerializeString(c.userName)),
           Member("ip", SerializeString(c.ip)),
           Member("port", SerializeU16(c.port)),
           Member("processCmdLine", SerializeString(c.processCmdLine)),
           Member("responseStatus", SerializeString(c.responseStatus)),
           Member("count", SerializeUnsigned(c.count)),
           Member("userGroups", SerializeOptionVecString(c.userGroups)),
           Member("processFullPath", SerializeOptionString(c.processFullPath))>>)

SerializeSummaries(v) == JArr([i \in 1..Len(v) |-> SerializeSummary(v[i])])

SerializeAggregate(a, ord) ==
    JObj(<<Member("timestamp", SerializeString(a.timestamp)),
           Member("proxyAgentStatus", SerializeProxyAgentStatus(a.proxyAgentStatus, ord)),
           Member("proxyConnectionSummary", SerializeSummaries(a.proxyConnectionSummary)),
           Member("failedAuthenticateSummary",
                  SerializeSummaries(a.failedAuthenticateSummary))>>)

(***************************************************************************)
(* derive(Deserialize)                                                     *)
(***************************************************************************)
Ok(v) == [ok |-> TRUE, value |-> v]

Err == [ok |-> FALSE]

DeString(v) == IF v.t = "str" THEN Ok(v.s) ELSE Err

\* a unit variant is read from its name; any other string is an unknown variant
DeEnum(v, variants) == IF v.t = "str" /\ v.s \in variants THEN Ok(v.s) ELSE Err

\* the parser reads an unsigned integer into a u64 (a longer one becomes a float,
\* a signed one an i64 or a float, none of which an unsigned visitor accepts)
ParseU64(v) ==
    IF v.t = "num" /\ ~v.neg /\ WellFormedDigits(v.digits)
    THEN AccumulateDigits(v.digits, 1, ZeroLimbs(U64Limbs))
    ELSE [ok |-> FALSE, limbs |-> ZeroLimbs(U64Limbs)]

MutDeU16Wraps(v) ==
    LET n == ParseU64(v)
    IN  IF n.ok THEN Ok(n.limbs[1]) ELSE Err
\* u16: the parsed u64 must fit (visit_u64 checks the range, it does not truncate)
DeU16(v) ==
    LET n == ParseU64(v)
    IN  IF n.ok /\ FitsIn(n.limbs, U16Limbs) THEN Ok(n.limbs[1]) ELSE Err

DeU64(v) ==
    LET n == ParseU64(v)
    IN  IF n.ok THEN Ok(n.limbs) ELSE Err

MutDeU128AsU64(v) ==
    LET n == ParseU64(v)
    IN  IF n.ok THEN Ok(Widen(n.limbs, U128Limbs)) ELSE Err
\* u128: the digits are scanned whole and parsed as a u128
DeU128(v) ==
    IF v.t = "num" /\ ~v.neg /\ WellFormedDigits(v.digits)
    THEN LET n == AccumulateDigits(v.digits, 1, ZeroLimbs(U128Limbs))
         IN  IF n.ok THEN Ok(n.limbs) ELSE Err
    ELSE Err

DeVecString(v) ==
    IF v.t = "arr" /\ \A i \in 1..Len(v.items) : v.items[i].t = "str"
    THEN Ok([i \in 1..Len(v.items) |-> v.items[i].s])
    ELSE Err

\* Option<T>: null is None, anything else is Some(T)
DeOptionString(v) ==
    IF v.t = "null" THEN Ok(None)
    ELSE LET r == DeString(v) IN IF r.ok THEN Ok(Some(r.value)) ELSE Err

DeOptionVecString(v) ==
    IF v.t = "null" THEN Ok(None)
    ELSE LET r == DeVecString(v) IN IF r.ok THEN Ok(Some(r.value)) ELSE Err

\* HashMap<String, String>: entries are inserted in document order, so the last
\* occurrence of a key wins
DeMap(v) ==
    IF v.t = "obj" /\ \A i \in 1..Len(v.members) : v.members[i].v.t = "str"
    THEN Ok({[k |-> v.members[i].k, v |-> v.members[i].v.s] :
                i \in {j \in 1..Len(v.members) :
                          \A l \in (j + 1)..Len(v.members) :
                              v.members[l].k # v.members[j].k}})
    ELSE Err

DeOptionMap(v) ==
    IF v.t = "null" THEN Ok(None)
    ELSE LET r == DeMap(v) IN IF r.ok THEN Ok(Some(r.value)) ELSE Err

Occurrences(obj, k) == {i \in 1..Len(obj.members) : obj.members[i].k = k}

FieldValue(obj, k) == obj.members[CHOOSE i \in Occurrences(obj, k) : TRUE].v

MutMissingOptionIsError(isOption) == Err
\* a field the document lacks: None for an Option, otherwise an error
MissingField(isOption) == IF isOption THEN Ok(None) ELSE Err

\* a field of a struct: a repeated key is an error (duplicate field)
Field(obj, k, isOption, r) ==
    IF Occurrences(obj, k) = {} THEN MissingField(isOption)
    ELSE IF Cardinality(Occurrences(obj, k)) > 1 THEN Err
    ELSE r

DeDetail(v) ==
    IF v.t # "obj" THEN Err
    ELSE LET status == Field(v, "status", FALSE, DeEnum(FieldValue(v, "status"), ModuleState))
             message == Field(v, "message", FALSE, DeString(FieldValue(v, "message")))
             states == Field(v, "states", TRUE, DeOptionMap(FieldValue(v, "states")))
         IN  IF status.ok /\ message.ok /\ states.ok
             THEN Ok(ProxyAgentDetailStatus(status.value, message.value, states.value))
             ELSE Err

DeDetailField(v, k) == Field(v, k, FALSE, DeDetail(FieldValue(v, k)))

DeProxyAgentStatus(v) ==
    IF v.t # "obj" THEN Err
    ELSE LET version == Field(v, "version", FALSE, DeString(FieldValue(v, "version")))
             status == Field(v, "status", FALSE, DeEnum(FieldValue(v, "status"), OverallState))
             monitorStatus == DeDetailField(v, "monitorStatus")
             keyLatchStatus == DeDetailField(v, "keyLatchStatus")
             ebpfProgramStatus == DeDetailField(v, "ebpfProgramStatus")
             proxyListenerStatus == DeDetailField(v, "proxyListenerStatus")
             telemetryLoggerStatus == DeDetailField(v, "telemetryLoggerStatus")
             proxyConnectionsCount ==
                 Field(v, "proxyConnectionsCount", FALSE,
                       DeU128(FieldValue(v, "proxyConnectionsCount")))
         IN  IF /\ version.ok /\ status.ok /\ monitorStatus.ok /\ keyLatchStatus.ok
                /\ ebpfProgramStatus.ok /\ proxyListenerStatus.ok
                /\ telemetryLoggerStatus.ok /\ proxyConnectionsCount.ok
             THEN Ok([version |-> version.value,
                      status |-> status.value,
                      monitorStatus |-> monitorStatus.value,
                      keyLatchStatus |-> keyLatchStatus.value,
                      ebpfProgramStatus |-> ebpfProgramStatus.value,
                      proxyListenerStatus |-> proxyListenerStatus.value,
                      telemetryLoggerStatus |-> telemetryLoggerStatus.value,
                      proxyConnectionsCount |-> proxyConnectionsCount.value])
             ELSE Err

DeSummary(v) ==
    IF v.t # "obj" THEN Err
    ELSE LET userName == Field(v, "userName", FALSE, DeString(FieldValue(v, "userName")))
             ip == Field(v, "ip", FALSE, DeString(FieldValue(v, "ip")))
             port == Field(v, "port", FALSE, DeU16(FieldValue(v, "port")))
             processCmdLine ==
                 Field(v, "processCmdLine", FALSE, DeString(FieldValue(v, "processCmdLine")))
             responseStatus ==
                 Field(v, "responseStatus", FALSE, DeString(FieldValue(v, "responseStatus")))
             count == Field(v, "count", FALSE, DeU64(FieldValue(v, "count")))
             userGroups ==
                 Field(v, "userGroups", TRUE, DeOptionVecString(FieldValue(v, "userGroups")))
             processFullPath ==
                 Field(v, "processFullPath", TRUE,
                       DeOptionString(FieldValue(v, "processFullPath")))
         IN  IF /\ userName.ok /\ ip.ok /\ port.ok /\ processCmdLine.ok
                /\ responseStatus.ok /\ count.ok /\ userGroups.ok /\ processFullPath.ok
             THEN Ok(ProxyConnectionSummary(userName.value, ip.value, port.value,
                                            processCmdLine.value, responseStatus.value,
                                            count.value, userGroups.value,
                                            processFullPath.value))
             ELSE Err

DeSummaries(v) ==
    IF v.t = "arr" /\ \A i \in 1..Len(v.items) : DeSummary(v.items[i]).ok
    THEN Ok([i \in 1..Len(v.items) |-> DeSummary(v.items[i]).value])
    ELSE Err

DeserializeAggregate(v) ==
    IF v.t # "obj" THEN Err
    ELSE LET timestamp == Field(v, "timestamp", FALSE, DeString(FieldValue(v, "timestamp")))
             proxyAgentStatus ==
                 Field(v, "proxyAgentStatus", FALSE,
                       DeProxyAgentStatus(FieldValue(v, "proxyAgentStatus")))
             proxyConnectionSummary ==
                 Field(v, "proxyConnectionSummary", FALSE,
                       DeSummaries(FieldValue(v, "proxyConnectionSummary")))
             failedAuthenticateSummary ==
                 Field(v, "failedAuthenticateSummary", FALSE,
                       DeSummaries(FieldValue(v, "failedAuthenticateSummary")))
         IN  IF /\ timestamp.ok /\ proxyAgentStatus.ok /\ proxyConnectionSummary.ok
                /\ failedAuthenticateSummary.ok
             THEN Ok([timestamp |-> timestamp.value,
                      proxyAgentStatus |-> proxyAgentStatus.value,
                      proxyConnectionSummary |-> proxyConnectionSummary.value,
                      failedAuthenticateSummary |-> failedAuthenticateSummary.value])
             ELSE Err

(***************************************************************************)
(* The values the producer reports                                         *)
(***************************************************************************)
DetailSamples ==
    <<ProxyAgentDetailStatus("RUNNING", "running", None),
      ProxyAgentDetailStatus("STOPPED", "failed to start", Some({})),
      ProxyAgentDetailStatus("UNKNOWN", "", Some({[k |-> "keyGuid", v |-> "5a3b"]})),
      ProxyAgentDetailStatus("RUNNING", "latched",
                             Some({[k |-> "keyGuid", v |-> "5a3b"],
                                   [k |-> "secureChannelState", v |-> "Latched"]}))>>

\* 0, 2^64 - 1, 2^64 and 2^128 - 1
U128Samples ==
    <<ZeroLimbs(U128Limbs),
      Widen(MaxLimbs(U64Limbs), U128Limbs),
      [i \in 1..U128Limbs |-> IF i = U64Limbs + 1 THEN 1 ELSE 0],
      MaxLimbs(U128Limbs)>>

SummarySamples ==
    <<ProxyConnectionSummary("alice", "10.0.0.4", 0, "curl 168.63.129.16", "200 OK",
                             ZeroLimbs(U64Limbs), None, None),
      ProxyConnectionSummary("root", "168.63.129.16", LimbBase - 1, "", "403 Forbidden",
                             MaxLimbs(U64Limbs), Some(<<>>), Some("/usr/bin/curl")),
      ProxyConnectionSummary("", "169.254.169.254", 80, "waagent -daemon", "",
                             <<0, 1, 0, 0>>, Some(<<"root", "adm">>), Some(""))>>

\* (proxyConnectionSummary, failedAuthenticateSummary)
SummaryListPairs ==
    <<[passed |-> <<SummarySamples[1]>>, failed |-> <<>>],
      [passed |-> <<SummarySamples[2], SummarySamples[3]>>, failed |-> <<SummarySamples[1]>>],
      [passed |-> <<>>, failed |-> <<SummarySamples[3], SummarySamples[2]>>]>>

\* the five modules get different samples; r rotates which module gets which
DetailOf(i, r) == DetailSamples[((i + r) % Len(DetailSamples)) + 1]

Snapshot(r, o, lp) ==
    [timestamp |-> "2024-01-01T00:00:00Z",
     proxyAgentStatus |->
        [version |-> "1.0.30",
         status |-> o,
         monitorStatus |-> DetailOf(1, r),
         keyLatchStatus |-> DetailOf(2, r),
         ebpfProgramStatus |-> DetailOf(3, r),
         proxyListenerStatus |-> DetailOf(4, r),
         telemetryLoggerStatus |-> DetailOf(5, r),
         proxyConnectionsCount |-> U128Samples[r + 1]],
     proxyConnectionSummary |-> SummaryListPairs[lp].passed,
     failedAuthenticateSummary |-> SummaryListPairs[lp].failed]

(***************************************************************************)
(* A foreign writer's edits of a document                                  *)
(***************************************************************************)
K(name) == [key |-> name]

I(index) == [idx |-> index]

IsKey(step) == "key" \in DOMAIN step

Drop == [op |-> "drop"]

Put(v) == [op |-> "put", v |-> v]

\* remove the member, or give it the value v (appending it when it is absent)
EditMember(obj, k, e) ==
    IF e.op = "drop"
    THEN JObj(SelectSeq(obj.members, LAMBDA m : m.k # k))
    ELSE IF Occurrences(obj, k) = {}
         THEN JObj(Append(obj.members, Member(k, e.v)))
         ELSE JObj([i \in 1..Len(obj.members) |->
                      IF obj.members[i].k = k THEN Member(k, e.v) ELSE obj.members[i]])

RECURSIVE EditAt(_, _, _)
EditAt(node, path, e) ==
    IF Len(path) = 1 THEN EditMember(node, path[1].key, e)
    ELSE IF IsKey(path[1])
         THEN JObj([i \in 1..Len(node.members) |->
                      IF node.members[i].k = path[1].key
                      THEN Member(node.members[i].k, EditAt(node.members[i].v, Tail(path), e))
                      ELSE node.members[i]])
         ELSE JArr([node.items EXCEPT ![path[1].idx] = EditAt(@, Tail(path), e)])

\* the node at a path: <<v>>, or <<>> when the path leads nowhere
RECURSIVE NodeAt(_, _)
NodeAt(node, path) ==
    IF path = <<>> THEN <<node>>
    ELSE IF IsKey(path[1])
         THEN IF node.t = "obj" /\ Cardinality(Occurrences(node, path[1].key)) = 1
              THEN NodeAt(FieldValue(node, path[1].key), Tail(path))
              ELSE <<>>
         ELSE IF node.t = "arr" /\ path[1].idx \in 1..Len(node.items)
              THEN NodeAt(node.items[path[1].idx], Tail(path))
              ELSE <<>>

TopKeys == <<"timestamp", "proxyAgentStatus", "proxyConnectionSummary",
             "failedAuthenticateSummary">>

StatusKeys == <<"version", "status", "monitorStatus", "keyLatchStatus", "ebpfProgramStatus",
                "proxyListenerStatus", "telemetryLoggerStatus", "proxyConnectionsCount">>

DetailKeys == <<"status", "message", "states">>

SummaryKeys == <<"userName", "ip", "port", "processCmdLine", "responseStatus", "count",
                 "userGroups", "processFullPath">>

Range(seq) == {seq[i] : i \in 1..Len(seq)}

SummaryPaths(a) ==
    {<<K("proxyConnectionSummary"), I(i)>> : i \in 1..Len(a.proxyConnectionSummary)}
        \cup {<<K("failedAuthenticateSummary"), I(i)>> :
                 i \in 1..Len(a.failedAuthenticateSummary)}

DetailPaths == {<<K("proxyAgentStatus"), K(d)>> : d \in Range(DetailFields)}

\* every field of the schema that the status a holds
FieldPaths(a) ==
    {<<K(k)>> : k \in Range(TopKeys)}
        \cup {<<K("proxyAgentStatus"), K(k)>> : k \in Range(StatusKeys)}
        \cup {Append(p, K(k)) : p \in DetailPaths, k \in Range(DetailKeys)}
        \cup {Append(p, K(k)) : p \in SummaryPaths(a), k \in Range(SummaryKeys)}

OptionalKeys == {"states", "userGroups", "processFullPath"}

NumericKeys == {"port", "count", "proxyConnectionsCount"}

LastKey(path) == path[Len(path)].key

\* 65535, 65536, 70000, -1, 2^64 - 1, 2^64, 2^128 - 1, 2^128, 007
NumberSamples ==
    {JNum(FALSE, <<6, 5, 5, 3, 5>>),
     JNum(FALSE, <<6, 5, 5, 3, 6>>),
     JNum(FALSE, <<7, 0, 0, 0, 0>>),
     JNum(TRUE, <<1>>),
     JNum(FALSE, UnsignedDigits(MaxLimbs(U64Limbs))),
     JNum(FALSE, <<1, 8, 4, 4, 6, 7, 4, 4, 0, 7, 3, 7, 0, 9, 5, 5, 1, 6, 1, 6>>),
     JNum(FALSE, UnsignedDigits(MaxLimbs(U128Limbs))),
     JNum(FALSE, <<3, 4, 0, 2, 8, 2, 3, 6, 6, 9, 2, 0, 9, 3, 8, 4, 6, 3, 4, 6,
                   3, 3, 7, 4, 6, 0, 7, 4, 3, 1, 7, 6, 8, 2, 1, 1, 4, 5, 6>>),
     JNum(FALSE, <<0, 0, 7>>)}

\* drop a key, write null for it, or write another number for a numeric field
Edits(a) ==
    {[path |-> p, e |-> Drop] : p \in FieldPaths(a)}
        \cup {[path |-> p, e |-> Put(JNull)] : p \in FieldPaths(a)}
        \cup {[path |-> p, e |-> Put(n)] :
                 p \in {q \in FieldPaths(a) : LastKey(q) \in NumericKeys}, n \in NumberSamples}

(***************************************************************************)
(* Producer, foreign writer and consumer                                   *)
(***************************************************************************)
InitStatus == ErrorIdle /\ StatusIdle /\ CloneIdle

\* a monitoring collaborator builds a fresh snapshot at each reporting interval:
\* at the start, and once the consumer has read the previous document
Build ==
    /\ snapshot = None \/ parsed # None
    /\ \E r \in 0..(Len(U128Samples) - 1), o \in OverallState,
          lp \in 1..Len(SummaryListPairs) :
          snapshot' = Some(Snapshot(r, o, lp))
    /\ doc' = None
    /\ origin' = "none"
    /\ edit' = NoEdit
    /\ parsed' = None
    /\ UNCHANGED <<errorVars, cloneVars>>

\* the snapshot is handed to the serializer once
Serialize ==
    /\ snapshot # None
    /\ doc = None
    /\ \E ord \in [Range(DetailFields) -> KeyOrders] :
          doc' = Some(SerializeAggregate(snapshot[1], ord))
    /\ origin' = "serialized"
    /\ edit' = NoEdit
    /\ parsed' = None
    /\ UNCHANGED <<snapshot, errorVars, cloneVars>>

ForeignEdit ==
    /\ origin = "serialized"
    /\ \E e \in Edits(snapshot[1]) :
          /\ doc' = Some(EditAt(doc[1], e.path, e.e))
          /\ edit' = e
    /\ origin' = "foreign"
    /\ parsed' = None
    /\ UNCHANGED <<snapshot, errorVars, cloneVars>>

DeserializeDoc ==
    /\ doc # None
    /\ parsed = None
    /\ parsed' = Some(DeserializeAggregate(doc[1]))
    /\ UNCHANGED <<snapshot, doc, origin, edit, errorVars, cloneVars>>

NextStatus ==
    \/ Build
    \/ Serialize
    \/ ForeignEdit
    \/ DeserializeDoc

SpecStatus == InitStatus /\ [][NextStatus]_vars

(***************************************************************************)
(* Owned storage: a String owns a buffer, a Vec<String> owns a buffer of   *)
(* Strings; port and count are stored inline                               *)
(***************************************************************************)
StrBuf(s) == [t |-> "str", s |-> s]

VecBuf(items) == [t |-> "vec", items |-> items]

\* a new buffer at a fresh address
Alloc(h, cell) == [h |-> Append(h, cell), a |-> Len(h) + 1]

\* String::from / to_string
StringNew(h, s) == Alloc(h, StrBuf(s))

RECURSIVE VecStringNew(_, _, _)
VecStringNew(h, v, items) ==
    IF Len(items) = Len(v) THEN Alloc(h, VecBuf(items))
    ELSE LET e == StringNew(h, v[Len(items) + 1])
         IN  VecStringNew(e.h, v, Append(items, e.a))

\* String::clone: a new buffer with the same contents
StringClone(h, a) == Alloc(h, StrBuf(h[a].s))

\* Vec<String>::clone: every element is cloned into a new buffer
RECURSIVE VecStringCloneFrom(_, _, _)
VecStringCloneFrom(h, a, items) ==
    IF Len(items) = Len(h[a].items) THEN Alloc(h, VecBuf(items))
    ELSE LET e == StringClone(h, h[a].items[Len(items) + 1])
         IN  VecStringCloneFrom(e.h, a, Append(items, e.a))

VecStringClone(h, a) == VecStringCloneFrom(h, a, <<>>)

\* Option<String>::clone
OptionStringClone(h, o) ==
    IF o = None THEN [h |-> h, a |-> None]
    ELSE LET c == StringClone(h, o[1]) IN [h |-> c.h, a |-> Some(c.a)]

\* Option<Vec<String>>::clone
OptionVecStringClone(h, o) ==
    IF o = None THEN [h |-> h, a |-> None]
    ELSE LET c == VecStringClone(h, o[1]) IN [h |-> c.h, a |-> Some(c.a)]

\* the owner stores the summary v
StoreSummary(h, v) ==
    LET userName == StringNew(h, v.userName)
        ip == StringNew(userName.h, v.ip)
        processCmdLine == StringNew(ip.h, v.processCmdLine)
        responseStatus == StringNew(processCmdLine.h, v.responseStatus)
        userGroups ==
            IF v.userGroups = None THEN [h |-> responseStatus.h, a |-> None]
            ELSE LET g == VecStringNew(responseStatus.h, v.userGroups[1], <<>>)
                 IN  [h |-> g.h, a |-> Some(g.a)]
        processFullPath ==
            IF v.processFullPath = None THEN [h |-> userGroups.h, a |-> None]
            ELSE LET f == StringNew(userGroups.h, v.processFullPath[1])
                 IN  [h |-> f.h, a |-> Some(f.a)]
    IN  [h |-> processFullPath.h,
         obj |-> ProxyConnectionSummary(userName.a, ip.a, v.port, processCmdLine.a,
                                        responseStatus.a, v.count, userGroups.a,
                                        processFullPath.a)]

MutCloneSharesGroups(h, self) ==
    LET userName == StringClone(h, self.userName)
        ip == StringClone(userName.h, self.ip)
        processFullPath == OptionStringClone(ip.h, self.processFullPath)
        processCmdLine == StringClone(processFullPath.h, self.processCmdLine)
        responseStatus == StringClone(processCmdLine.h, self.responseStatus)
    IN  [h |-> responseStatus.h,
         obj |-> [userName |-> userName.a,
                  userGroups |-> self.userGroups,
                  ip |-> ip.a,
                  port |-> self.port,
                  processFullPath |-> processFullPath.a,
                  processCmdLine |-> processCmdLine.a,
                  responseStatus |-> responseStatus.a,
                  count |-> self.count]]
\* impl Clone for ProxyConnectionSummary: the fields in the order the code clones them
Clone(h, self) ==
    LET userName == StringClone(h, self.userName)
        userGroups == OptionVecStringClone(userName.h, self.userGroups)
        ip == StringClone(userGroups.h, self.ip)
        processFullPath == OptionStringClone(ip.h, self.processFullPath)
        processCmdLine == StringClone(processFullPath.h, self.processCmdLine)
        responseStatus == StringClone(processCmdLine.h, self.responseStatus)
    IN  [h |-> responseStatus.h,
         obj |-> [userName |-> userName.a,
                  userGroups |-> userGroups.a,
                  ip |-> ip.a,
                  port |-> self.port,
                  processFullPath |-> processFullPath.a,
                  processCmdLine |-> processCmdLine.a,
                  responseStatus |-> responseStatus.a,
                  count |-> self.count]]

\* the value a stored summary holds
View(h, obj) ==
    ProxyConnectionSummary(
        h[obj.userName].s, h[obj.ip].s, obj.port, h[obj.processCmdLine].s,
        h[obj.responseStatus].s, obj.count,
        IF obj.userGroups = None THEN None
        ELSE Some([i \in 1..Len(h[obj.userGroups[1]].items) |->
                      h[h[obj.userGroups[1]].items[i]].s]),
        IF obj.processFullPath = None THEN None ELSE Some(h[obj.processFullPath[1]].s))

\* the buffers a stored summary owns
Owned(h, obj) ==
    {obj.userName, obj.ip, obj.processCmdLine, obj.responseStatus}
        \cup (IF obj.userGroups = None THEN {}
              ELSE {obj.userGroups[1]} \cup Range(h[obj.userGroups[1]].items))
        \cup (IF obj.processFullPath = None THEN {} ELSE {obj.processFullPath[1]})

StringFields == {"userName", "ip", "processCmdLine", "responseStatus"}

Mutations ==
    {[kind |-> "count", v |-> v] : v \in {<<1, 0, 0, 0>>, MaxLimbs(U64Limbs)}}
        \cup {[kind |-> "port", v |-> 443]}
        \cup {[kind |-> "push_str", field |-> f] : f \in StringFields}
        \cup {[kind |-> "push_path"], [kind |-> "push_group"], [kind |-> "clear_groups"]}

Applicable(obj, m) ==
    CASE m.kind \in {"push_group", "clear_groups"} -> obj.userGroups # None
      [] m.kind = "push_path" -> obj.processFullPath # None
      [] OTHER -> TRUE

\* String::push_str on the buffer at a
PushStr(h, a, s) == [h EXCEPT ![a] = StrBuf(@.s \o s)]

\* a write through one holder's summary: its inline fields, or the buffers it owns
Mutate(h, obj, m) ==
    CASE m.kind = "count" -> [h |-> h, obj |-> [obj EXCEPT !.count = m.v]]
      [] m.kind = "port" -> [h |-> h, obj |-> [obj EXCEPT !.port = m.v]]
      [] m.kind = "push_str" -> [h |-> PushStr(h, obj[m.field], "!"), obj |-> obj]
      [] m.kind = "push_path" -> [h |-> PushStr(h, obj.processFullPath[1], "!"), obj |-> obj]
      [] m.kind = "push_group" ->
            LET e == StringNew(h, "wheel")
            IN  [h |-> [e.h EXCEPT ![obj.userGroups[1]] = VecBuf(Append(@.items, e.a))],
                 obj |-> obj]
      [] m.kind = "clear_groups" ->
            [h |-> [h EXCEPT ![obj.userGroups[1]] = VecBuf(<<>>)], obj |-> obj]

InitClone == ErrorIdle /\ StatusIdle /\ CloneIdle

\* the owner comes to hold a summary
TakeSource ==
    /\ src = None
    /\ \E i \in 1..Len(SummarySamples) :
          LET st == StoreSummary(heap, SummarySamples[i])
          IN  /\ heap' = st.h
              /\ src' = Some(st.obj)
              /\ own' = [own EXCEPT !.src = Some(View(st.h, st.obj))]
    /\ op' = "take"
    /\ UNCHANGED <<copy, muts, errorVars, statusVars>>

\* copy = src.clone()
CloneSource ==
    /\ src # None
    /\ copy = None
    /\ LET c == Clone(heap, src[1])
       IN  /\ heap' = c.h
           /\ copy' = Some(c.obj)
           /\ own' = [own EXCEPT !.copy = Some(View(c.h, c.obj))]
    /\ op' = "clone"
    /\ UNCHANGED <<src, muts, errorVars, statusVars>>

MutateSource ==
    /\ src # None
    /\ muts < MaxMutations
    /\ \E m \in Mutations :
          /\ Applicable(src[1], m)
          /\ LET r == Mutate(heap, src[1], m)
             IN  /\ heap' = r.h
                 /\ src' = Some(r.obj)
                 /\ own' = [own EXCEPT !.src = Some(View(r.h, r.obj))]
    /\ op' = "mutate_src"
    /\ muts' = muts + 1
    /\ UNCHANGED <<copy, errorVars, statusVars>>

MutateCopy ==
    /\ copy # None
    /\ muts < MaxMutations
    /\ \E m \in Mutations :
          /\ Applicable(copy[1], m)
          /\ LET r == Mutate(heap, copy[1], m)
             IN  /\ heap' = r.h
                 /\ copy' = Some(r.obj)
                 /\ own' = [own EXCEPT !.copy = Some(View(r.h, r.obj))]
    /\ op' = "mutate_copy"
    /\ muts' = muts + 1
    /\ UNCHANGED <<src, errorVars, statusVars>>

NextClone ==
    \/ TakeSource
    \/ CloneSource
    \/ MutateSource
    \/ MutateCopy

SpecClone == InitClone /\ [][NextClone]_vars

\* the producer and the owner of a summary, one at a time
NextStatusClone ==
    \/ CloneIdle /\ NextStatus
    \/ StatusIdle /\ NextClone

SpecStatusClone == InitStatus /\ [][NextStatusClone]_vars

(***************************************************************************)
(* Claims about the error facade, under SpecError                          *)
(***************************************************************************)
\* the status texts the documentation gives: numeric code, then reason phrase
DocumentedStatusText(code) ==
    CASE code = 200 -> "200 OK"
      [] code = 404 -> "404 Not Found"
      [] code = 500 -> "500 Internal Server Error"
      [] code = 599 -> "599 <unknown status code>"

DocumentedWirePhrase(t) ==
    CASE t = "Telemetry" -> "Telemetry call to wire server failed"
      [] t = "GoalState" -> "Goal state call to wire server failed"
      [] t = "SharedConfig" -> "Shared config call to wire server failed"

\* the documented template of the value a constructor was given, filled in
DocumentedText(c, a) ==
    CASE c = "io" -> "IO error: " \o a.message \o ": " \o IoErrorDisplay(a.cause)
      [] c = "hex" ->
            "Hex encoded key '" \o a.message \o "' is invalid: "
                \o FromHexErrorDisplay(a.cause)
      [] c = "parse_url" ->
            "Failed to parse URL " \o a.url \o " with error: " \o InvalidUriDisplay(a.cause)
      [] c = "parse_url_message" ->
            "Failed to parse URL " \o a.url \o " with error: " \o a.message
      [] c = "wire_server" ->
            DocumentedWirePhrase(a.error_type) \o " with the error: " \o a.message
      [] c = "hyper" /\ a.error.kind = "Custom" ->
            a.error.context \o ": " \o HyperErrorDisplay(a.error.cause)
      [] c = "hyper" /\ a.error.kind = "RequestBuilder" ->
            "Failed to build request with error: " \o a.error.reason
      [] c = "hyper" /\ a.error.kind = "ServerError" ->
            "Failed to get response from " \o a.error.target \o ", status code: "
                \o DocumentedStatusText(a.error.status)
      [] c = "hyper" /\ a.error.kind = "Deserialize" ->
            "Deserialization failed: " \o a.error.reason
      [] c = "key" /\ a.error.kind = "KeyStatusValidation" ->
            "Key error: Key status validation failed with the error: " \o a.error.detail
      [] c = "key" /\ a.error.kind = "SendKeyRequest" ->
            "Key error: Failed to send " \o a.error.action \o " key with error: "
                \o a.error.innerText
      [] c = "key" /\ a.error.kind = "KeyResponse" ->
            "Key error: Failed to " \o a.error.action \o " key with status code: "
                \o DocumentedStatusText(a.error.status)
      [] c = "key" /\ a.error.kind = "ParseKeyUrl" ->
            "Key error: Failed to join " \o a.error.base \o " and " \o a.error.path
                \o " with error: " \o InvalidUriDisplay(a.error.cause)

\* C1: the text to_string returns for the Error a constructor built is that
\* variant's documented template with the constructor's arguments substituted
\* literally; a ServerError's status is its numeric code and reason phrase.
C1_RenderedIsTemplate ==
    text # None => text = Some(DocumentedText(ctor, args))

\* C1 witness: the test's ServerError("testurl.com", 500) has been rendered
C1_Witness ==
    /\ ctor = "hyper"
    /\ args.error = ServerError("testurl.com", 500)
    /\ text = Some("Failed to get response from testurl.com, status code: 500 Internal Server Error")

\* C2: wire_server(tag, m) renders as the tag's operation phrase, then
\* " with the error: ", then m unchanged, for each of the three tags.
C2_WireServerText ==
    (ctor = "wire_server" /\ text # None) =>
        /\ error.boxed.variant = "WireServer"
        /\ text = Some(DocumentedWirePhrase(args.error_type) \o " with the error: " \o args.message)

\* C2 witness: the test's wire_server(Telemetry, "Invalid response"), rendered
C2_Witness ==
    /\ ctor = "wire_server"
    /\ args.error_type = "Telemetry"
    /\ text = Some("Telemetry call to wire server failed with the error: Invalid response")

\* every Error one constructor call can return on the caller's inputs
BaseErrors ==
    {io(m, c) : m \in Contexts, c \in IoErrors}
        \cup {hyper(h) : h \in HyperErrorTypes}
        \cup {hex(m, c) : m \in HexKeys, c \in HexErrors}
        \cup {key(k) : k \in KeyErrorTypes}
        \cup {parse_url(u, c) : u \in Urls, c \in InvalidUris}
        \cup {parse_url_message(u, m) : u \in Urls, m \in Reasons}
        \cup {wire_server(t, m) : t \in WireServerErrorTypes, m \in Reasons}

\* C3: key(SendKeyRequest(a, render(e))) renders "Key error: Failed to send a
\* key with error: render(e)"; the composite holds only the rendered string of
\* e, so any other error with the same rendering gives the same composite.
C3_FlattenToText ==
    nest > 0 =>
        LET a == args.error.action
            r == ErrorDisplay(inner)
        IN  /\ error.boxed.variant = "Key"
            /\ error.boxed.f0 = [kind |-> "SendKeyRequest", action |-> a, innerText |-> r]
            /\ text # None =>
                  text = Some("Key error: Failed to send " \o a \o " key with error: " \o r)
            /\ \A e2 \in BaseErrors :
                  ErrorDisplay(e2) = r =>
                      /\ key(SendKeyRequest(a, ErrorDisplay(e2))) = error
                      /\ text # None =>
                            Some(ErrorDisplay(key(SendKeyRequest(a, ErrorDisplay(e2))))) = text

\* C3 witness: a rendered composite whose inner error shares its rendering
\* with a structurally different error
C3_Witness ==
    /\ nest > 0
    /\ text # None
    /\ \E e2 \in BaseErrors : e2 # inner /\ ErrorDisplay(e2) = ErrorDisplay(inner)

\* C3 witness of the test's own case
C3_TestCase ==
    /\ nest > 0
    /\ inner = wire_server("Telemetry", "Invalid response")
    /\ text = Some("Key error: Failed to send acquire key with error: Telemetry call to wire server failed with the error: Invalid response")

Constructors ==
    {"io", "hyper", "hex", "key", "parse_url", "parse_url_message", "wire_server"}

Variants == {"IO", "Hyper", "Hex", "Key", "WireServer", "ParseUrl"}

DocumentedVariant(c) ==
    CASE c = "io" -> "IO"
      [] c = "hyper" -> "Hyper"
      [] c = "hex" -> "Hex"
      [] c = "key" -> "Key"
      [] c \in {"parse_url", "parse_url_message"} -> "ParseUrl"
      [] c = "wire_server" -> "WireServer"

\* C7 as stated: the mapping from constructors to the variant they produce is
\* one-to-one, so two different constructors never return the same variant.
C7_OneToOne ==
    [][(ctor # "none" /\ ctor' # ctor) => error'.boxed.variant # error.boxed.variant]_vars

\* C7 amended: every constructor returns an Error holding exactly one of the six
\* variants, each variant has a constructor, and two different constructors
\* return the same variant only if they are parse_url and parse_url_message.
C7_OneVariantPerConstructor ==
    ctor # "none" =>
        /\ ctor \in Constructors
        /\ error.boxed.variant \in Variants
        /\ error.boxed.variant = DocumentedVariant(ctor)
        /\ \A c2 \in Constructors :
              (c2 # ctor /\ DocumentedVariant(c2) = error.boxed.variant)
                  => {c2, ctor} = {"parse_url", "parse_url_message"}
        /\ {DocumentedVariant(c) : c \in Constructors} = Variants

\* C7 witness: hex returned an Error
C7_Witness ==
    ctor = "hex" /\ error.boxed.variant = "Hex"

\* C9: parse_url(url, c) yields the same value and the same text as
\* parse_url_message(url, render(c)); the cause c itself is not kept.
C9_ParseUrlEquivalence ==
    ctor = "parse_url" =>
        /\ error = parse_url_message(args.url, InvalidUriDisplay(args.cause))
        /\ error.boxed.variant = "ParseUrl"
        /\ error.boxed.f1 # args.cause
        /\ text # None =>
              /\ text = Some("Failed to parse URL " \o args.url \o " with error: "
                                \o InvalidUriDisplay(args.cause))
              /\ text = Some(ErrorDisplay(parse_url_message(args.url,
                                                            InvalidUriDisplay(args.cause))))

\* C9 witness: a parse_url error has been rendered
C9_Witness ==
    /\ ctor = "parse_url"
    /\ args.cause = "InvalidUriChar"
    /\ text = Some("Failed to parse URL testurl.com with error: invalid uri character")

(***************************************************************************)
(* Claims about the status schema, under SpecStatus (C8: SpecStatusClone)  *)
(***************************************************************************)
KeysOf(obj) == [i \in 1..Len(obj.members) |-> obj.members[i].k]

\* the field of a status value that a path of the document names
RECURSIVE ValueAt(_, _)
ValueAt(v, path) ==
    IF path = <<>> THEN v
    ELSE IF IsKey(path[1]) THEN ValueAt(v[path[1].key], Tail(path))
         ELSE ValueAt(v[path[1].idx], Tail(path))

AllSummaries(a) == Range(a.proxyConnectionSummary) \cup Range(a.failedAuthenticateSummary)

DetailsOf(a) == {a.proxyAgentStatus[d] : d \in Range(DetailFields)}

\* C4: deserializing the serializer's output gives back the snapshot, field for
\* field: every detail status, both summary sequences in order, the 128-bit
\* count; an absent states or userGroups comes back absent.
C4_RoundTrip ==
    (origin = "serialized" /\ parsed # None) =>
        /\ parsed[1].ok
        /\ parsed[1].value = snapshot[1]
        /\ \A d \in Range(DetailFields) :
              snapshot[1].proxyAgentStatus[d].states = None
                  <=> parsed[1].value.proxyAgentStatus[d].states = None
        /\ \A p \in SummaryPaths(snapshot[1]) :
              ValueAt(snapshot[1], p).userGroups = None
                  <=> ValueAt(parsed[1].value, p).userGroups = None
        /\ parsed[1].value.proxyAgentStatus.proxyConnectionsCount
              = snapshot[1].proxyAgentStatus.proxyConnectionsCount

\* C4 witness: a round trip of a snapshot with an absent states, an empty
\* states mapping, an absent userGroups and the count 2^128 - 1
C4_Witness ==
    /\ origin = "serialized"
    /\ parsed # None
    /\ parsed[1].ok
    /\ snapshot[1].proxyAgentStatus.monitorStatus.states = None
    /\ snapshot[1].proxyAgentStatus.keyLatchStatus.states = Some({})
    /\ snapshot[1].proxyAgentStatus.proxyConnectionsCount = MaxLimbs(U128Limbs)
    /\ \E c \in AllSummaries(snapshot[1]) : c.userGroups = None
    /\ Len(snapshot[1].proxyConnectionSummary) > 1

\* C5: in the serializer's output the key states is present exactly when the
\* field holds a mapping; userGroups and processFullPath are always present,
\* null when the field is absent; no other key is ever omitted.
C5_OnlyStatesOmitted ==
    origin = "serialized" =>
        /\ KeysOf(doc[1]) = TopKeys
        /\ KeysOf(NodeAt(doc[1], <<K("proxyAgentStatus")>>)[1]) = StatusKeys
        /\ \A p \in DetailPaths :
              KeysOf(NodeAt(doc[1], p)[1])
                  = IF ValueAt(snapshot[1], p).states = None
                    THEN <<"status", "message">>
                    ELSE <<"status", "message", "states">>
        /\ \A p \in SummaryPaths(snapshot[1]) :
              /\ KeysOf(NodeAt(doc[1], p)[1]) = SummaryKeys
              /\ ValueAt(snapshot[1], p).userGroups = None
                    <=> NodeAt(doc[1], Append(p, K("userGroups"))) = <<JNull>>
              /\ ValueAt(snapshot[1], p).processFullPath = None
                    <=> NodeAt(doc[1], Append(p, K("processFullPath"))) = <<JNull>>
        /\ Len(NodeAt(doc[1], <<K("proxyConnectionSummary")>>)[1].items)
              = Len(snapshot[1].proxyConnectionSummary)
        /\ Len(NodeAt(doc[1], <<K("failedAuthenticateSummary")>>)[1].items)
              = Len(snapshot[1].failedAuthenticateSummary)

\* C5 witness: a serialized snapshot with an absent and a present states, and a
\* summary whose userGroups and processFullPath are absent
C5_Witness ==
    /\ origin = "serialized"
    /\ \E d \in DetailsOf(snapshot[1]) : d.states = None
    /\ \E d \in DetailsOf(snapshot[1]) : d.states # None
    /\ \E c \in AllSummaries(snapshot[1]) : c.userGroups = None /\ c.processFullPath = None
    /\ \E c \in AllSummaries(snapshot[1]) : c.userGroups # None

\* digit strings without leading zeros, compared as numbers
RECURSIVE LexGreater(_, _, _)
LexGreater(a, b, i) ==
    IF i > Len(a) THEN FALSE
    ELSE IF a[i] # b[i] THEN a[i] > b[i]
    ELSE LexGreater(a, b, i + 1)

DigitsGreater(a, b) == Len(a) > Len(b) \/ (Len(a) = Len(b) /\ LexGreater(a, b, 1))

\* a number of the document that lies outside 0..max
OutOfRange(n, max) ==
    /\ n # <<>>
    /\ n[1].t = "num"
    /\ n[1].neg \/ (WellFormedDigits(n[1].digits) /\ DigitsGreater(n[1].digits, max))

WellTypedSummary(c) ==
    /\ c.port \in 0..65535
    /\ Len(c.count) = 4
    /\ \A i \in 1..4 : c.count[i] \in 0..65535

\* C8: every summary that is built, cloned, mutated or deserialized has its
\* port within 0..65535 and its count within 0..2^64-1; a document whose port
\* or count lies outside its range is rejected, not wrapped or truncated.
C8_PortAndCountInRange ==
    /\ snapshot # None => \A c \in AllSummaries(snapshot[1]) : WellTypedSummary(c)
    /\ src # None => WellTypedSummary(View(heap, src[1]))
    /\ copy # None =>
          /\ WellTypedSummary(View(heap, copy[1]))
          /\ op = "clone" =>
                /\ View(heap, copy[1]).port = View(heap, src[1]).port
                /\ View(heap, copy[1]).count = View(heap, src[1]).count
    /\ parsed # None =>
          /\ parsed[1].ok => \A c \in AllSummaries(parsed[1].value) : WellTypedSummary(c)
          /\ \A p \in SummaryPaths(snapshot[1]) :
                \/ OutOfRange(NodeAt(doc[1], Append(p, K("port"))), <<6, 5, 5, 3, 5>>)
                \/ OutOfRange(NodeAt(doc[1], Append(p, K("count"))),
                              <<1, 8, 4, 4, 6, 7, 4, 4, 0, 7, 3, 7, 0, 9, 5, 5, 1, 6, 1, 5>>)
                => ~parsed[1].ok

\* C8 witness: the consumer has refused a document whose port is 65536
C8_Witness ==
    /\ origin = "foreign"
    /\ LastKey(edit.path) = "port"
    /\ edit.e = Put(JNum(FALSE, <<6, 5, 5, 3, 6>>))
    /\ parsed = Some(Err)

\* C8 witness: a port of 65535 and a count of 2^64 - 1 are accepted
C8_WitnessAccepted ==
    /\ parsed # None
    /\ parsed[1].ok
    /\ \E c \in AllSummaries(parsed[1].value) :
          c.port = 65535 /\ c.count = <<65535, 65535, 65535, 65535>>

\* the other way of leaving an optional field out: null for dropped, dropped for null
Counterpart(d, e) ==
    IF e.e = Drop THEN EditAt(d, e.path, Put(JNull)) ELSE EditAt(d, e.path, Drop)

OptionalEdit == edit # NoEdit /\ LastKey(edit.path) \in OptionalKeys /\ edit.e \in {Drop, Put(JNull)}

\* C10: for states, userGroups and processFullPath a document lacking the key
\* and one carrying null deserialize to the same value, the field absent; a
\* document lacking a non-optional key is rejected; serializing the result
\* writes userGroups and processFullPath as null and leaves states out.
C10_OmittedEqualsNull ==
    parsed # None =>
        /\ OptionalEdit =>
              /\ parsed[1].ok
              /\ ValueAt(parsed[1].value, edit.path) = None
              /\ DeserializeAggregate(Counterpart(doc[1], edit)) = parsed[1]
              /\ \A ord \in [Range(DetailFields) -> KeyOrders] :
                    LET again == SerializeAggregate(parsed[1].value, ord)
                    IN  /\ NodeAt(again, edit.path)
                              = IF LastKey(edit.path) = "states" THEN <<>> ELSE <<JNull>>
                        /\ (NodeAt(doc[1], edit.path) # NodeAt(again, edit.path))
                              => again # doc[1]
        /\ (edit.e = Drop /\ LastKey(edit.path) \notin OptionalKeys) => ~parsed[1].ok

\* C10 witness: a document that omits userGroups has been accepted, and
\* serializing the result does not give the document back
C10_Witness ==
    /\ parsed # None
    /\ edit.e = Drop
    /\ LastKey(edit.path) = "userGroups"
    /\ parsed[1].ok
    /\ NodeAt(doc[1], edit.path) = <<>>
    /\ \A ord \in [Range(DetailFields) -> KeyOrders] :
          SerializeAggregate(parsed[1].value, ord) # doc[1]

\* C10 witness: a document with a null states has been accepted
C10_WitnessNullStates ==
    /\ parsed # None
    /\ edit.e = Put(JNull)
    /\ LastKey(edit.path) = "states"
    /\ parsed[1].ok
    /\ NodeAt(doc[1], edit.path) = <<JNull>>

\* C10 witness: a document that omits port has been refused
C10_WitnessRequired ==
    /\ parsed = Some(Err)
    /\ edit.e = Drop
    /\ LastKey(edit.path) = "port"

(***************************************************************************)
(* Claims about the clone of a summary, under SpecClone                    *)
(***************************************************************************)
\* C6: a clone equals its source in all eight fields and owns its own
\* storage: the two own no buffer in common, so whatever one holder writes
\* (count, port, strings, the userGroups sequence) the other's fields stay
\* what its own holder last wrote.
C6_IndependentCopy ==
    copy # None =>
        /\ op = "clone" =>
              LET s == View(heap, src[1])
                  c == View(heap, copy[1])
              IN  /\ c.userName = s.userName
                  /\ c.ip = s.ip
                  /\ c.port = s.port
                  /\ c.processCmdLine = s.processCmdLine
                  /\ c.responseStatus = s.responseStatus
                  /\ c.count = s.count
                  /\ c.userGroups = s.userGroups
                  /\ c.processFullPath = s.processFullPath
        /\ Owned(heap, src[1]) \cap Owned(heap, copy[1]) = {}
        /\ Some(View(heap, src[1])) = own.src
        /\ Some(View(heap, copy[1])) = own.copy

\* C6 witness: the copy's userGroups, a string and its count were written
\* and the source still holds what it held
C6_Witness ==
    /\ copy # None
    /\ op = "mutate_copy"
    /\ View(heap, src[1]) = SummarySamples[3]
    /\ View(heap, copy[1]).userGroups = Some(<<"root", "adm", "wheel">>)
    /\ View(heap, copy[1]).count # SummarySamples[3].count

\* C6 witness: the source was written after the clone and the copy is unchanged
C6_WitnessSourceWritten ==
    /\ copy # None
    /\ op = "mutate_src"
    /\ View(heap, copy[1]) = SummarySamples[2]
    /\ View(heap, src[1]) # SummarySamples[2]

====
